---- MODULE Spec2Model ----
(***************************************************************************)
(* Model of clap-verbosity-flag (src/src/lib.rs): a Verbosity<L> value     *)
(* holding two u8 counts, the LogLevel policy L, and the accessors that    *)
(* derive a log / tracing level from them through i8 arithmetic.           *)
(***************************************************************************)
EXTENDS Integers, Sequences, FiniteSets, TLC

VARIABLES
    self,             \* the Verbosity struct: [verbose: u8, quiet: u8]
    args,             \* the arguments new() was called with
    L,                \* the LogLevel policy the struct is parameterised by
    features,         \* cargo features the crate was built with
    overflow_checks,  \* rustc overflow-checks setting of the build
    op,               \* the method called last
    result            \* what that call returned (or that it panicked)

vars == <<self, args, L, features, overflow_checks, op, result>>

----------------------------------------------------------------------------
\* Integer types

U8_MAX == 255
I8_MIN == -128
I8_MAX == 127

\* Half-width of the windows of u8 values explored around 0, 128 and 255.
Window == 4

u8 == 0..U8_MAX
i8 == I8_MIN..I8_MAX

\* The counts the argument layer / caller may hand to new(): the low end,
\* both sides of the i8 sign boundary, and the top end of u8.
Counts ==
    { n \in u8 : \/ n <= Window
                 \/ (n >= 128 - Window /\ n <= 128 + Window)
                 \/ n >= U8_MAX - Window }

\* `x as i8` for x: u8 (two's complement reinterpretation).
as_i8(x) == IF x > I8_MAX THEN x - 256 ELSE x

\* Two's complement wrap of a mathematical integer into i8.
wrap_i8(n) == ((n - I8_MIN) % 256) + I8_MIN

Ok(v) == [panic |-> FALSE, value |-> v]
Panic == [panic |-> TRUE, value |-> "attempt to compute with overflow"]

\* An i8 arithmetic result: panics when the build checks overflow, wraps
\* otherwise.
i8_arith(n) ==
    IF n \in i8 THEN Ok(n)
    ELSE IF overflow_checks THEN Panic
    ELSE Ok(wrap_i8(n))

----------------------------------------------------------------------------
\* The level enumerations of the log and tracing-subscriber crates

Level == {"Level::Error", "Level::Warn", "Level::Info", "Level::Debug", "Level::Trace"}
OptionLevel == {"None"} \cup Level

LogLevelFilter ==
    {"LevelFilter::Off", "LevelFilter::Error", "LevelFilter::Warn",
     "LevelFilter::Info", "LevelFilter::Debug", "LevelFilter::Trace"}

TracingLevelFilter ==
    {"LevelFilter::OFF", "LevelFilter::ERROR", "LevelFilter::WARN",
     "LevelFilter::INFO", "LevelFilter::DEBUG", "LevelFilter::TRACE"}

\* log::Level as usize (the enum discriminant).
level_as_usize(l) ==
    CASE l = "Level::Error" -> 1
      [] l = "Level::Warn"  -> 2
      [] l = "Level::Info"  -> 3
      [] l = "Level::Debug" -> 4
      [] l = "Level::Trace" -> 5

\* log::LevelFilter::from_usize
filter_from_usize(u) ==
    CASE u = 0 -> "LevelFilter::Off"
      [] u = 1 -> "LevelFilter::Error"
      [] u = 2 -> "LevelFilter::Warn"
      [] u = 3 -> "LevelFilter::Info"
      [] u = 4 -> "LevelFilter::Debug"
      [] u = 5 -> "LevelFilter::Trace"

to_level_filter_off_by_one(l) == filter_from_usize(level_as_usize(l) - 1)

\* log::Level::to_level_filter
to_level_filter(l) == filter_from_usize(level_as_usize(l))

----------------------------------------------------------------------------
\* LogLevel policies

ErrorLevel == [default_log |-> "Level::Error", default_tracing |-> "LevelFilter::ERROR"]
WarnLevel  == [default_log |-> "Level::Warn",  default_tracing |-> "LevelFilter::WARN"]
InfoLevel  == [default_log |-> "Level::Info",  default_tracing |-> "LevelFilter::INFO"]

\* default_tracing() values of the user-defined policies explored
\* (Option<LevelFilter>; Some(f) is written f).
UserTracingDefaults == {"None", "LevelFilter::TRACE"}

\* Implementations of the LogLevel trait: the three built-in ones and
\* user-defined ones with any default_log().
LogLevel ==
    {ErrorLevel, WarnLevel, InfoLevel}
        \cup [default_log : OptionLevel, default_tracing : UserTracingDefaults]

----------------------------------------------------------------------------
\* Free functions

level_value_log(level) ==
    CASE level = "None"         -> -1
      [] level = "Level::Error" -> 0
      [] level = "Level::Warn"  -> 1
      [] level = "Level::Info"  -> 2
      [] level = "Level::Debug" -> 3
      [] level = "Level::Trace" -> 4

level_value_tracing(level) ==
    CASE level = "LevelFilter::ERROR" -> 0
      [] level = "LevelFilter::WARN"  -> 1
      [] level = "LevelFilter::INFO"  -> 2
      [] level = "LevelFilter::DEBUG" -> 3
      [] level = "LevelFilter::TRACE" -> 4
      [] OTHER                        -> -1

level_enum_log_early_debug(verbosity) ==
    CASE verbosity <= -1 -> "None"
      [] verbosity = 0   -> "Level::Error"
      [] verbosity = 1   -> "Level::Warn"
      [] verbosity = 2   -> "Level::Info"
      [] verbosity >= 3  -> "Level::Debug"

level_enum_log(verbosity) ==
    CASE verbosity >= I8_MIN /\ verbosity <= -1 -> "None"
      [] verbosity = 0                          -> "Level::Error"
      [] verbosity = 1                          -> "Level::Warn"
      [] verbosity = 2                          -> "Level::Info"
      [] verbosity = 3                          -> "Level::Debug"
      [] verbosity >= 4                         -> "Level::Trace"

level_enum_tracing(verbosity) ==
    CASE verbosity >= I8_MIN /\ verbosity <= -1 -> "LevelFilter::OFF"
      [] verbosity = 0                          -> "LevelFilter::ERROR"
      [] verbosity = 1                          -> "LevelFilter::WARN"
      [] verbosity = 2                          -> "LevelFilter::INFO"
      [] verbosity = 3                          -> "LevelFilter::DEBUG"
      [] verbosity >= 4                         -> "LevelFilter::TRACE"

----------------------------------------------------------------------------
\* impl Verbosity<L>

new(verbose, quiet) == [verbose |-> verbose, quiet |-> quiet]

\* level - (quiet as i8) + (verbose as i8), evaluated left to right in i8.
i8_sub_add(level, s) ==
    LET diff == i8_arith(level - as_i8(s.quiet))
    IN  IF diff.panic THEN Panic
        ELSE i8_arith(diff.value + as_i8(s.verbose))

verbosity_from_tracing(s, P) ==
    i8_sub_add(level_value_tracing(P.default_tracing), s)

verbosity(s, P) ==
    IF "log" \in features
    THEN i8_sub_add(level_value_log(P.default_log), s)
    ELSE i8_sub_add(level_value_tracing(P.default_tracing), s)

log_level(s, P) ==
    LET v == verbosity(s, P)
    IN  IF v.panic THEN Panic ELSE Ok(level_enum_log(v.value))

tracing_level(s, P) ==
    LET v == verbosity(s, P)
    IN  IF v.panic THEN Panic ELSE Ok(level_enum_tracing(v.value))

log_level_filter(s, P) ==
    LET v == verbosity(s, P)
    IN  IF v.panic THEN Panic
        ELSE LET l == level_enum_log(v.value)
             IN  Ok(IF l = "None" THEN "LevelFilter::Off" ELSE to_level_filter(l))

tracing_level_filter(s, P) ==
    LET v == verbosity(s, P)
    IN  IF v.panic THEN Panic ELSE Ok(level_enum_tracing(v.value))

is_silent(s, P) ==
    IF "log" \in features
    THEN LET l == log_level(s, P)
         IN  IF l.panic THEN Panic ELSE Ok(l.value = "None")
    ELSE LET t == tracing_level(s, P)
         IN  IF t.panic THEN Panic ELSE Ok(t.value = "LevelFilter::OFF")

----------------------------------------------------------------------------
\* impl Display: write!(f, "{}", self.verbosity()) formats an i8 in decimal

Digit(d) ==
    CASE d = 0 -> "0" [] d = 1 -> "1" [] d = 2 -> "2" [] d = 3 -> "3"
      [] d = 4 -> "4" [] d = 5 -> "5" [] d = 6 -> "6" [] d = 7 -> "7"
      [] d = 8 -> "8" [] d = 9 -> "9"

RECURSIVE Digits(_)
Digits(n) == IF n < 10 THEN <<Digit(n)>> ELSE Digits(n \div 10) \o <<Digit(n % 10)>>

\* The decimal text of an integer, as a sequence of characters.
Decimal(n) == IF n < 0 THEN <<"-">> \o Digits(-n) ELSE Digits(n)

fmt(s, P) ==
    LET v == verbosity(s, P)
    IN  IF v.panic THEN Panic ELSE Ok(Decimal(v.value))

----------------------------------------------------------------------------
\* The builds and the state machine

\* Feature sets the crate builds with: with `tracing` alone verbosity()
\* passes an Option<LevelFilter> to level_value_tracing(LevelFilter), which
\* does not type-check, and with neither feature is_silent() has no body.
Builds == {{"log"}, {"log", "tracing"}}

Init ==
    /\ \E verbose \in Counts, quiet \in Counts :
          /\ args = <<verbose, quiet>>
          /\ self = new(verbose, quiet)
    /\ L \in LogLevel
    /\ features \in Builds
    /\ overflow_checks \in BOOLEAN
    /\ op = "new"
    /\ result = Ok("Verbosity")

Frame == UNCHANGED <<self, args, L, features, overflow_checks>>

Call_log_level ==
    /\ "log" \in features
    /\ op' = "log_level"
    /\ result' = log_level(self, L)
    /\ Frame

Call_tracing_level ==
    /\ "tracing" \in features
    /\ op' = "tracing_level"
    /\ result' = tracing_level(self, L)
    /\ Frame

Call_log_level_filter ==
    /\ "log" \in features
    /\ op' = "log_level_filter"
    /\ result' = log_level_filter(self, L)
    /\ Frame

Call_tracing_level_filter ==
    /\ "tracing" \in features
    /\ op' = "tracing_level_filter"
    /\ result' = tracing_level_filter(self, L)
    /\ Frame

Call_is_silent ==
    /\ op' = "is_silent"
    /\ result' = is_silent(self, L)
    /\ Frame

Call_fmt_consuming ==
    /\ op' = "fmt"
    /\ result' = fmt(self, L)
    /\ self' = new(0, 0)
    /\ UNCHANGED <<args, L, features, overflow_checks>>

Call_fmt ==
    /\ op' = "fmt"
    /\ result' = fmt(self, L)
    /\ Frame

Next ==
    \/ Call_log_level
    \/ Call_tracing_level
    \/ Call_log_level_filter
    \/ Call_tracing_level_filter
    \/ Call_is_silent
    \/ Call_fmt

Spec == Init /\ [][Next]_vars

----------------------------------------------------------------------------
\* Vocabulary of the properties

\* Rank in the order no-output < Error < Warn < Info < Debug < Trace.
Rank(l) ==
    CASE l = "None"         -> -1
      [] l = "Level::Error" -> 0
      [] l = "Level::Warn"  -> 1
      [] l = "Level::Info"  -> 2
      [] l = "Level::Debug" -> 3
      [] l = "Level::Trace" -> 4

\* The mathematical signed verbosity d - quiet_count + verbose_count.
NetVerbosity == level_value_log(L.default_log) - self.quiet + self.verbose

\* The log threshold that shows level l and everything more severe.
ThresholdOf(l) ==
    CASE l = "None"         -> "LevelFilter::Off"
      [] l = "Level::Error" -> "LevelFilter::Error"
      [] l = "Level::Warn"  -> "LevelFilter::Warn"
      [] l = "Level::Info"  -> "LevelFilter::Info"
      [] l = "Level::Debug" -> "LevelFilter::Debug"
      [] l = "Level::Trace" -> "LevelFilter::Trace"

\* The tracing filter of the same rank as the log level l.
TracingOf(l) ==
    CASE l = "None"         -> "LevelFilter::OFF"
      [] l = "Level::Error" -> "LevelFilter::ERROR"
      [] l = "Level::Warn"  -> "LevelFilter::WARN"
      [] l = "Level::Info"  -> "LevelFilter::INFO"
      [] l = "Level::Debug" -> "LevelFilter::DEBUG"
      [] l = "Level::Trace" -> "LevelFilter::TRACE"

\* What the accessor named o returns for struct s under policy P.
Accessor(o, s, P) ==
    CASE o = "log_level"            -> log_level(s, P)
      [] o = "log_level_filter"     -> log_level_filter(s, P)
      [] o = "tracing_level"        -> tracing_level(s, P)
      [] o = "tracing_level_filter" -> tracing_level_filter(s, P)
      [] o = "is_silent"            -> is_silent(s, P)
      [] o = "fmt"                  -> fmt(s, P)

----------------------------------------------------------------------------
\* C1: Display renders exactly the mathematical integer
\* d - quiet_count + verbose_count for all counts in 0..255, with no
\* clamping or wrap-around.  (Violated: the counts are cast to i8.)
C1_ExactSignedVerbosity ==
    op = "fmt" => /\ ~result.panic
                  /\ result.value = Decimal(NetVerbosity)

\* C2: log_level() is None iff the signed verbosity s is negative, and is
\* Error, Warn, Info, Debug, Trace for s = 0, 1, 2, 3 and s >= 4; with the
\* default-Error policy no flag gives Error, -q None, -v Warn, -vv Info,
\* -vvv Debug, -vvvv Trace, and default-Info with quiet=2 gives Error.
C2_LevelMapping ==
    op = "log_level" =>
        /\ ~result.panic =>
              LET s == verbosity(self, L).value
              IN  /\ result.value = "None" <=> s < 0
                  /\ s = 0 => result.value = "Level::Error"
                  /\ s = 1 => result.value = "Level::Warn"
                  /\ s = 2 => result.value = "Level::Info"
                  /\ s = 3 => result.value = "Level::Debug"
                  /\ s >= 4 => result.value = "Level::Trace"
        /\ L = ErrorLevel =>
              /\ self = new(0, 0) => result = Ok("Level::Error")
              /\ self = new(0, 1) => result = Ok("None")
              /\ self = new(1, 0) => result = Ok("Level::Warn")
              /\ self = new(2, 0) => result = Ok("Level::Info")
              /\ self = new(3, 0) => result = Ok("Level::Debug")
              /\ self = new(4, 0) => result = Ok("Level::Trace")
        /\ L = InfoLevel /\ self = new(0, 2) => result = Ok("Level::Error")

\* C2 witness: a verbosity above the top of the scale (Warn default, -vvvv,
\* s = 5) has been mapped to Trace.
C2_Witness ==
    /\ op = "log_level"
    /\ L = WarnLevel
    /\ self = new(4, 0)
    /\ verbosity(self, L) = Ok(5)
    /\ result = Ok("Level::Trace")

\* C3: once log_level() is Trace for some verbose_count, it is Trace for
\* every larger verbose_count up to 255 (quiet_count and policy fixed).
\* (Violated: verbose_count >= 128 is cast to a negative i8.)
C3_TraceSaturation ==
    ( /\ op = "log_level"
      /\ \E v0 \in 0..(self.verbose - 1) :
            log_level(new(v0, self.quiet), L) = Ok("Level::Trace") )
        => result = Ok("Level::Trace")

\* C4: is_silent() is true exactly when log_level() is None, i.e. exactly
\* when d - quiet_count + verbose_count < 0, for all counts in 0..255.
\* (Violated: the second equivalence fails once a count is 128 or more.)
C4_SilentIffNegative ==
    op = "is_silent" =>
        /\ ~result.panic
        /\ result.value <=> (log_level(self, L) = Ok("None"))
        /\ result.value <=> (NetVerbosity < 0)

\* C5: log_level_filter() is LevelFilter::Off iff log_level() is None, and
\* when log_level() is Some(l) the filter is the threshold of the same l.
C5_FilterAgreesWithLevel ==
    op = "log_level_filter" =>
        LET l == log_level(self, L)
        IN  /\ result.panic <=> l.panic
            /\ ~result.panic =>
                  /\ result.value \in LogLevelFilter
                  /\ result.value = "LevelFilter::Off" <=> l.value = "None"
                  /\ result.value = ThresholdOf(l.value)

\* C5 witness: the filter was asked for while the level is absent
\* (default Error, -q) and came back Off.
C5_Witness ==
    /\ op = "log_level_filter"
    /\ L = ErrorLevel
    /\ self = new(0, 1)
    /\ log_level(self, L) = Ok("None")
    /\ result = Ok("LevelFilter::Off")

\* C6: no operation can fail: for all counts in 0..255 and every policy
\* default, every accessor returns a value and never panics.
\* (Violated: with overflow checks the i8 arithmetic panics.)
C6_NoPanic == ~result.panic

\* C7: whenever verbose_count = quiet_count, log_level() is the policy's
\* default_log(); and a no-output policy gives None unless there is a net
\* increase of at least one.  (Violated through the i8 casts.)
C7_DefaultAtZeroNet ==
    op = "log_level" =>
        /\ self.verbose = self.quiet => result = Ok(L.default_log)
        /\ (L.default_log = "None" /\ self.verbose <= self.quiet)
              => result = Ok("None")

\* C8: new(verbose, quiet) stores both counts verbatim, every query leaves
\* verbose_count and quiet_count unchanged, and repeating a query returns
\* the same result.
C8_Immutable ==
    [][ /\ self.verbose = args[1] /\ self.quiet = args[2]
        /\ self' = self
        /\ op' = op => result' = result
        /\ result' = Accessor(op', new(args[1], args[2]), L) ]_vars

\* C8 witness: a query has run on an accumulator built from two non-zero
\* counts, which it still holds.
C8_Witness ==
    /\ op = "fmt"
    /\ args = <<3, 2>>
    /\ self = [verbose |-> 3, quiet |-> 2]
    /\ L = ErrorLevel
    /\ result = Ok(<<"1">>)

\* C9: raising verbose_count by one never yields a less verbose level, and
\* raising quiet_count by one never yields a more verbose level, for all
\* counts in 0..255.  (Violated at the i8 sign boundary, 127 -> 128.)
C9_Monotone ==
    (op = "log_level" /\ ~result.panic) =>
        /\ self.verbose > 0 =>
              LET p == log_level(new(self.verbose - 1, self.quiet), L)
              IN  ~p.panic => Rank(p.value) <= Rank(result.value)
        /\ self.quiet > 0 =>
              LET p == log_level(new(self.verbose, self.quiet - 1), L)
              IN  ~p.panic => Rank(result.value) <= Rank(p.value)

\* C10: with both features enabled, tracing_level() and
\* tracing_level_filter() denote the same rank as log_level(), and policies
\* that differ only in default_tracing() give the same result from every
\* accessor.
C10_TracingAgreesWithLog ==
    features = {"log", "tracing"} =>
        /\ op \in {"tracing_level", "tracing_level_filter"} =>
              LET l == log_level(self, L)
              IN  /\ result.panic <=> l.panic
                  /\ ~result.panic => result.value = TracingOf(l.value)
        /\ op # "new" =>
              \A t \in {"None"} \cup TracingLevelFilter :
                  Accessor(op, self, [L EXCEPT !.default_tracing = t]) = result

\* C10 witness: a policy whose default_log() is Debug and whose
\* default_tracing() is None has answered tracing_level() with DEBUG.
C10_Witness ==
    /\ features = {"log", "tracing"}
    /\ op = "tracing_level"
    /\ L = [default_log |-> "Level::Debug", default_tracing |-> "None"]
    /\ self = new(0, 0)
    /\ result = Ok("LevelFilter::DEBUG")

====
